---- MODULE Spec2Model ----
(***************************************************************************)
(* A model of the snake game of src/src/App.tsx: the React state of the    *)
(* App component, its event handlers (keyboard, on-screen buttons, reset,  *)
(* logout) and the tick function moveSnake with the reject-and-resample    *)
(* loop of generateFood.                                                   *)
(*                                                                         *)
(* A handler runs to completion before the next event is taken (one        *)
(* JavaScript thread).  The only part of a handler that is split into      *)
(* steps is the while(true) loop of generateFood: pc names the handler     *)
(* that is inside the loop, and no other handler runs while pc # "idle".   *)
(* The state the handler writes is committed when the loop returns.        *)
(*                                                                         *)
(* The frame clock (requestAnimationFrame, lastUpdateTimeRef), the score   *)
(* submissions in flight and the account store of src/src/lib/storage.ts   *)
(* are the environment of the game: the main specification leaves them     *)
(* alone and takes a tick whenever the game runs; LoopSpec drives the tick *)
(* from the frame callbacks and lets the submissions settle; StoreSpec     *)
(* applies loginUser to the answers of the store.                          *)
(***************************************************************************)
EXTENDS Integers, Sequences, FiniteSets, TLC

VARIABLES
    snake,          \* useState<Point[]>: head first
    food,           \* useState<Point>
    direction,      \* useState<Point>
    isGameOver,     \* useState(false)
    isPaused,       \* useState(true)
    score,          \* useState(0)
    speed,          \* useState(BASE_SPEED)
    currentUser,    \* useState<UserToken | null>
    pc,             \* "idle", or the handler that is inside generateFood
    currentSnake,   \* generateFood's argument while the loop runs
    newFood,        \* generateFood's local: the last sample drawn
    ticks,          \* history: executed ticks since the game was created
    turns,          \* history: accepted direction changes since creation
    pickups,        \* history: food pickups since creation
    lastDir,        \* history: direction of the last executed tick
    lastInput,      \* history: the arrow input handled since the last tick
    collision,      \* history: what ended the game: "none", "wall", "self"
    closure,        \* currentUser and score as the memoised moveSnake holds them
    submitted,      \* history: the saveScore calls made since creation
    frameTime,      \* the timestamp of the latest frame callback
    lastUpdateTime, \* lastUpdateTimeRef.current
    frames,         \* history: frame callbacks run
    invoked,        \* history: moveSnake() calls made by the latest callback
    rafPending,     \* loop callbacks registered with requestAnimationFrame
    inflight,       \* saveScore calls that have not settled
    auth            \* a call of loginUser: its arguments, the store, the result

vars == <<snake, food, direction, isGameOver, isPaused, score, speed,
          currentUser, pc, currentSnake, newFood,
          ticks, turns, pickups, lastDir, lastInput, collision,
          closure, submitted,
          frameTime, lastUpdateTime, frames, invoked, rafPending,
          inflight, auth>>

game == <<snake, food, direction, isGameOver, isPaused, score, speed>>
hist == <<ticks, turns, pickups, lastDir, lastInput, collision>>
call == <<pc, currentSnake, newFood>>
side == <<closure, submitted>>
clock == <<frameTime, lastUpdateTime, frames, invoked, rafPending>>
env == <<clock, inflight, auth>>
beside == <<frameTime, lastUpdateTime, frames, invoked, inflight, auth>>

----------------------------------------------------------------------------
(* Program constants *)

GRID_SIZE == 20
BASE_SPEED == 150
SPEED_INCREMENT == 2
MIN_SPEED == 50
SCORE_INCREMENT == 10

Pt(px, py) == [x |-> px, y |-> py]

INITIAL_SNAKE == <<Pt(10, 10), Pt(10, 11), Pt(10, 12)>>
INITIAL_DIRECTION == Pt(0, -1)
INITIAL_FOOD == Pt(5, 5)

(* Bounds of the model *)

MaxTicks == 11
MaxTurns == 3

\* The value of a Point that has not been assigned, and of a null user.
NoPoint == [x |-> -9, y |-> -9]
NoUser == "null"
Users == {"neo"}

Coord == 0 .. (GRID_SIZE - 1)
Grid == {Pt(px, py) : px \in Coord, py \in Coord}

\* The outcomes of Math.random() the main specification draws from: a cell
\* of the initial snake (a rejected sample) and cells next to its head.
RandomCells == {Pt(10, 10), Pt(10, 9), Pt(10, 8), Pt(9, 9)}

----------------------------------------------------------------------------
(* Pure helpers of moveSnake and generateFood *)

Max(a, b) == IF a >= b THEN a ELSE b

Cells(s) == {s[i] : i \in 1 .. Len(s)}

\* Mutant of IsOnSnake: only the tail is compared.
IsOnSnakeTailOnly(s, p) == s[Len(s)].x = p.x /\ s[Len(s)].y = p.y

\* Mutant of IsOnSnake: only the head is compared.
IsOnSnakeHeadOnly(s, p) == s[1].x = p.x /\ s[1].y = p.y

\* currentSnake.some(segment => segment.x === p.x && segment.y === p.y)
IsOnSnake(s, p) == \E i \in 1 .. Len(s) : s[i].x = p.x /\ s[i].y = p.y

\* Mutant of NewHead: the direction is added twice.
NewHeadTwoCells(head, d) == Pt(head.x + 2 * d.x, head.y + 2 * d.y)

\* newHead = { x: head.x + direction.x, y: head.y + direction.y }
NewHead(head, d) == Pt(head.x + d.x, head.y + d.y)

\* Mutant of HitsWall: the upper bounds are off by one.
HitsWallOffByOne(p) == p.x < 0 \/ p.x > GRID_SIZE \/ p.y < 0 \/ p.y > GRID_SIZE

\* newHead.x < 0 || newHead.x >= GRID_SIZE || newHead.y < 0 || newHead.y >= GRID_SIZE
HitsWall(p) == p.x < 0 \/ p.x >= GRID_SIZE \/ p.y < 0 \/ p.y >= GRID_SIZE

\* Mutant of HitsSelf: the head and the neck are skipped.
HitsSelfSkipsNeck(prevSnake, p) ==
    \E i \in 3 .. Len(prevSnake) : prevSnake[i].x = p.x /\ prevSnake[i].y = p.y

\* Mutant of HitsSelf: the body after the move is tested, without the tail.
HitsSelfAfterPop(prevSnake, p) ==
    \E i \in 1 .. (Len(prevSnake) - 1) : prevSnake[i].x = p.x /\ prevSnake[i].y = p.y

\* prevSnake.some(segment => segment.x === newHead.x && segment.y === newHead.y)
HitsSelf(prevSnake, p) == IsOnSnake(prevSnake, p)

\* Mutant of EatsFood: only the column is compared.
EatsFoodSameColumn(p, f) == p.x = f.x

\* newHead.x === food.x && newHead.y === food.y
EatsFood(p, f) == p.x = f.x /\ p.y = f.y

\* Mutant of Grown: the tail is dropped while the head is added.
GrownDropsTail(prevSnake, p) == <<p>> \o SubSeq(prevSnake, 1, Len(prevSnake) - 1)

\* const newSnake = [newHead, ...prevSnake]
Grown(prevSnake, p) == <<p>> \o prevSnake

\* newSnake.pop()
Popped(s) == SubSeq(s, 1, Len(s) - 1)

\* Mutant of NextScore: one point for a pickup.
NextScoreByOne(s) == s + 1

\* setScore(s => s + 10)
NextScore(s) == s + SCORE_INCREMENT

\* Mutant of NextSpeed: no floor.
NextSpeedNoFloor(prev) == prev - SPEED_INCREMENT

\* setSpeed(prev => Math.max(50, prev - SPEED_INCREMENT))
NextSpeed(prev) == Max(MIN_SPEED, prev - SPEED_INCREMENT)

\* What a moveSnake created by useCallback in a render with this user and
\* this score reads as currentUser and score.  useCallback makes a new one
\* only when direction, food, isPaused or isGameOver is a new value.
Capture(user, sc) == [currentUser |-> user, score |-> sc]

\* if (currentUser) { saveScore(currentUser.username, score); }
SaveScoreCalls(c) ==
    IF c.currentUser # NoUser
    THEN <<[username |-> c.currentUser, score |-> c.score]>>
    ELSE <<>>

\* The direction a key or an on-screen button asks for.
KeyDirection(key) ==
    CASE key = "ArrowUp"    -> Pt(0, -1)
      [] key = "ArrowDown"  -> Pt(0, 1)
      [] key = "ArrowLeft"  -> Pt(-1, 0)
      [] key = "ArrowRight" -> Pt(1, 0)

ArrowKeys == {"ArrowUp", "ArrowDown", "ArrowLeft", "ArrowRight"}

\* Mutant of TurnAllowed: the guard reads the other coordinate.
TurnAllowedWrongAxis(d, key) ==
    IF key \in {"ArrowUp", "ArrowDown"} THEN d.x = 0 ELSE d.y = 0

\* The guard in front of setDirection: direction.y === 0 for up and down,
\* direction.x === 0 for left and right.
TurnAllowed(d, key) ==
    IF key \in {"ArrowUp", "ArrowDown"} THEN d.y = 0 ELSE d.x = 0

----------------------------------------------------------------------------
(* The registration of the Game Loop effect *)

\* Mutant of CancelAnimationFrame: the pending callback stays registered.
CancelAnimationFrameNoOp(n) == n

\* if (gameLoopRef.current) cancelAnimationFrame(gameLoopRef.current):
\* gameLoopRef holds the latest registration, n callbacks are registered.
CancelAnimationFrame(n) == IF n > 0 THEN n - 1 ELSE 0

\* gameLoopRef.current = requestAnimationFrame(loop)
RequestAnimationFrame(n) == n + 1

\* The effect runs again because moveSnake or speed is a new value: the
\* cleanup of the last run, then the body.
GameLoopEffect(n) == RequestAnimationFrame(CancelAnimationFrame(n))

----------------------------------------------------------------------------
(* Initial state: the useState initialisers of App *)

\* No call of loginUser is under way.
AuthIdle == [phase |-> "idle"]

\* useRef<number>(0); the Game Loop effect has registered loop once.
EnvInit ==
    /\ frameTime = 0
    /\ lastUpdateTime = 0
    /\ frames = 0
    /\ invoked = 0
    /\ rafPending = 1
    /\ inflight = <<>>
    /\ auth = AuthIdle

Init ==
    /\ snake = INITIAL_SNAKE
    /\ food = INITIAL_FOOD
    /\ direction = INITIAL_DIRECTION
    /\ isGameOver = FALSE
    /\ isPaused = TRUE
    /\ score = 0
    /\ speed = BASE_SPEED
    /\ currentUser = NoUser
    /\ pc = "idle"
    /\ currentSnake = <<>>
    /\ newFood = NoPoint
    /\ ticks = 0
    /\ turns = 0
    /\ pickups = 0
    /\ lastDir = NoPoint
    /\ lastInput = "none"
    /\ collision = "none"
    /\ closure = Capture(NoUser, 0)
    /\ submitted = <<>>
    /\ EnvInit

----------------------------------------------------------------------------
(* Account view *)

\* Auth's onLogin={setCurrentUser}; Auth is rendered only while no user is set.
Login ==
    /\ pc = "idle"
    /\ currentUser = NoUser
    /\ \E u \in Users : currentUser' = u
    /\ UNCHANGED <<game, call, hist, side, env>>

\* resetGame up to its call of generateFood(INITIAL_SNAKE).
ResetGameCall ==
    /\ pc' = "resetGame"
    /\ currentSnake' = INITIAL_SNAKE
    /\ newFood' = NoPoint
    /\ UNCHANGED <<game, hist, side, env>>

\* The Try Again button of the game-over overlay.
TryAgain ==
    /\ pc = "idle"
    /\ currentUser # NoUser
    /\ isGameOver
    /\ ResetGameCall
    /\ UNCHANGED currentUser

\* The Logout button: setCurrentUser(null); resetGame().
Logout ==
    /\ pc = "idle"
    /\ currentUser # NoUser
    /\ currentUser' = NoUser
    /\ ResetGameCall

----------------------------------------------------------------------------
(* Input *)

\* The four arrow cases of handleKeyDown; the listener is on window, whatever
\* view is rendered.
HandleArrowKey(key) ==
    /\ pc = "idle"
    /\ IF TurnAllowed(direction, key)
       THEN /\ turns < MaxTurns
            /\ direction' = KeyDirection(key)
            /\ turns' = turns + 1
            /\ closure' = Capture(currentUser, score)
            /\ rafPending' = GameLoopEffect(rafPending)
       ELSE UNCHANGED <<direction, turns, closure, rafPending>>
    /\ lastInput' = key
    /\ UNCHANGED <<snake, food, isGameOver, isPaused, score, speed,
                   currentUser, call, ticks, pickups, lastDir, collision,
                   submitted, beside>>

HandleKeyDown == \E key \in ArrowKeys : HandleArrowKey(key)

\* The four ControlButton onClick handlers of the game view.
ControlButton ==
    /\ currentUser # NoUser
    /\ \E key \in ArrowKeys : HandleArrowKey(key)

\* Mutant of TogglePaused: the control only resumes.
TogglePausedOff(prev) == FALSE

\* prev => !prev
TogglePaused(prev) == ~prev

\* case ' ' of handleKeyDown: setIsPaused(prev => !prev).
HandleSpaceKey ==
    /\ pc = "idle"
    /\ isPaused' = TogglePaused(isPaused)
    /\ closure' = Capture(currentUser, score)
    /\ rafPending' = GameLoopEffect(rafPending)
    /\ UNCHANGED <<snake, food, direction, isGameOver, score, speed,
                   currentUser, call, hist, submitted, beside>>

\* The pause button of the game view: setIsPaused(p => !p).
PauseButton ==
    /\ currentUser # NoUser
    /\ HandleSpaceKey

\* The play button of the paused overlay: setIsPaused(false).
PlayButton ==
    /\ pc = "idle"
    /\ currentUser # NoUser
    /\ isPaused /\ ~isGameOver
    /\ isPaused' = FALSE
    /\ closure' = Capture(currentUser, score)
    /\ rafPending' = GameLoopEffect(rafPending)
    /\ UNCHANGED <<snake, food, direction, isGameOver, score, speed,
                   currentUser, call, hist, submitted, beside>>

----------------------------------------------------------------------------
(* The tick: moveSnake *)

\* Mutant of ReturnsEarly: only isGameOver is tested.
ReturnsEarlyIfOver(paused, over) == over

\* if (isPaused || isGameOver) return;
ReturnsEarly(paused, over) == paused \/ over

\* One call of moveSnake that gets past its first line.  It writes the game
\* state and calls saveScore; the clock and the requests in flight are
\* written by its caller.
MoveSnake ==
    /\ pc = "idle"
    /\ ~ReturnsEarly(isPaused, isGameOver)
    /\ ticks < MaxTicks
    /\ LET newHead == NewHead(snake[1], direction) IN
       \/ /\ HitsWall(newHead)
          /\ isGameOver' = TRUE
          /\ collision' = "wall"
          /\ submitted' = submitted \o SaveScoreCalls(closure)
          /\ closure' = Capture(currentUser, score)
          /\ ticks' = ticks + 1
          /\ lastDir' = direction
          /\ lastInput' = "none"
          /\ UNCHANGED <<snake, food, direction, isPaused, score, speed,
                         currentUser, call, turns, pickups>>
       \/ /\ ~HitsWall(newHead)
          /\ HitsSelf(snake, newHead)
          /\ isGameOver' = TRUE
          /\ collision' = "self"
          /\ submitted' = submitted \o SaveScoreCalls(closure)
          /\ closure' = Capture(currentUser, score)
          /\ ticks' = ticks + 1
          /\ lastDir' = direction
          /\ lastInput' = "none"
          /\ UNCHANGED <<snake, food, direction, isPaused, score, speed,
                         currentUser, call, turns, pickups>>
       \/ /\ ~HitsWall(newHead)
          /\ ~HitsSelf(snake, newHead)
          /\ EatsFood(newHead, food)
          /\ pc' = "moveSnake"
          /\ currentSnake' = Grown(snake, newHead)
          /\ newFood' = NoPoint
          /\ UNCHANGED <<game, currentUser, hist, side>>
       \/ /\ ~HitsWall(newHead)
          /\ ~HitsSelf(snake, newHead)
          /\ ~EatsFood(newHead, food)
          /\ snake' = Popped(Grown(snake, newHead))
          /\ ticks' = ticks + 1
          /\ lastDir' = direction
          /\ lastInput' = "none"
          /\ UNCHANGED <<food, direction, isGameOver, isPaused, score, speed,
                         currentUser, call, turns, pickups, collision, side>>

\* A frame callback that is due while the game runs; the clock and the
\* requests in flight are left out.
Tick == MoveSnake /\ UNCHANGED env

----------------------------------------------------------------------------
(* generateFood: one iteration of its while(true) loop per step *)

\* The handlers that call generateFood.
Callers == {"moveSnake", "resetGame"}

\* A sample that lies on currentSnake: isOnSnake, the loop goes round.
GenerateFoodRetry(samples) ==
    /\ pc \in Callers
    /\ \E c \in samples :
          /\ IsOnSnake(currentSnake, c)
          /\ newFood' = c
    /\ UNCHANGED <<game, currentUser, pc, currentSnake, hist, side, env>>

\* Mutant of IsPausedAfterReset: a game made by resetGame waits for the
\* pause control.
IsPausedAfterResetReady == TRUE

\* setIsPaused(false) of resetGame.
IsPausedAfterReset == FALSE

\* A sample off currentSnake: break, return newFood; the handler that called
\* generateFood finishes and its state updates are committed.
GenerateFoodReturn(samples) ==
    /\ pc \in Callers
    /\ \E c \in samples :
          /\ ~IsOnSnake(currentSnake, c)
          /\ food' = c
    /\ pc' = "idle"
    /\ currentSnake' = <<>>
    /\ newFood' = NoPoint
    /\ rafPending' = GameLoopEffect(rafPending)
    /\ UNCHANGED beside
    /\ \/ /\ pc = "moveSnake"
          /\ snake' = currentSnake
          /\ score' = NextScore(score)
          /\ speed' = NextSpeed(speed)
          /\ ticks' = ticks + 1
          /\ pickups' = pickups + 1
          /\ lastDir' = direction
          /\ lastInput' = "none"
          /\ closure' = Capture(currentUser, score')
          /\ UNCHANGED <<direction, isGameOver, isPaused, currentUser,
                         turns, collision, submitted>>
       \/ /\ pc = "resetGame"
          /\ snake' = INITIAL_SNAKE
          /\ direction' = INITIAL_DIRECTION
          /\ score' = 0
          /\ isGameOver' = FALSE
          /\ isPaused' = IsPausedAfterReset
          /\ speed' = BASE_SPEED
          /\ ticks' = 0
          /\ turns' = 0
          /\ pickups' = 0
          /\ lastDir' = NoPoint
          /\ lastInput' = "none"
          /\ collision' = "none"
          /\ closure' = Capture(currentUser, 0)
          /\ submitted' = <<>>
          /\ UNCHANGED currentUser

----------------------------------------------------------------------------

Next ==
    \/ Login
    \/ Logout
    \/ TryAgain
    \/ HandleKeyDown
    \/ ControlButton
    \/ HandleSpaceKey
    \/ PauseButton
    \/ PlayButton
    \/ Tick
    \/ GenerateFoodRetry(RandomCells)
    \/ GenerateFoodReturn(RandomCells)

Spec == Init /\ [][Next]_vars

----------------------------------------------------------------------------
(* The frame clock and the score submissions.                              *)
(* The Game Loop effect registers loop with requestAnimationFrame; the     *)
(* browser calls it with a timestamp of its choosing.  The effect is set   *)
(* up again when moveSnake or speed is a new value (one registration is    *)
(* cancelled, one is made) and is cleaned up only when App is unmounted,   *)
(* which no handler of App does.                                           *)

\* The frame callbacks of one behaviour.
MaxFrames == 4

\* The time between two frame callbacks: half a period of the base speed,
\* exactly one period, two and a half periods.
FrameGaps == {BASE_SPEED \div 2, BASE_SPEED, 2 * BASE_SPEED + BASE_SPEED \div 2}

\* The keys pressed while the clock is followed: a turn, and the turn after
\* it that makes the snake run into its neck.
LoopKeys == {"ArrowLeft", "ArrowDown"}

\* Mutant of TickDue: a callback exactly one period late is due.
TickDueInclusive(time, last, sp) == time - last >= sp

\* if (time - lastUpdateTimeRef.current > speed)
TickDue(time, last, sp) == time - last > sp

\* Mutant of NextUpdateTime: the reference advances by one period, so the
\* periods missed are still owed.
NextUpdateTimeCatchUp(time, last, sp) == last + sp

\* lastUpdateTimeRef.current = time;
NextUpdateTime(time, last, sp) == time

\* One call of loop(time) by the browser.
Loop(dt) ==
    /\ pc = "idle"
    /\ rafPending > 0
    /\ frames < MaxFrames
    /\ LET time == frameTime + dt IN
       /\ frameTime' = time
       /\ IF TickDue(time, lastUpdateTime, speed)
          THEN /\ IF ReturnsEarly(isPaused, isGameOver)
                  THEN UNCHANGED <<game, currentUser, call, hist, side>>
                  ELSE MoveSnake
               /\ invoked' = 1
               /\ lastUpdateTime' = NextUpdateTime(time, lastUpdateTime, speed)
          ELSE /\ invoked' = 0
               /\ UNCHANGED <<game, currentUser, call, hist, side,
                              lastUpdateTime>>
    /\ frames' = frames + 1
    /\ rafPending' = IF isGameOver' # isGameOver
                     THEN GameLoopEffect(RequestAnimationFrame(rafPending - 1))
                     ELSE RequestAnimationFrame(rafPending - 1)
    /\ inflight' = inflight \o
                      SubSeq(submitted', Len(submitted) + 1, Len(submitted'))
    /\ UNCHANGED auth

\* How a call of saveScore can end: the insert is made, the store answers
\* with an error, the request throws.
SaveScoreOutcomes == {"inserted", "error", "exception"}

\* Mutant of AfterSaveScore: a submission that fails takes the game out of
\* game over.
AfterSaveScoreUndo(outcome, over) == outcome = "inserted" /\ over

\* isGameOver once a call of saveScore has settled: saveScore returns
\* nothing and only logs its errors, and moveSnake does not await it.
AfterSaveScore(outcome, over) == over

\* The i-th outstanding call of saveScore settles.  A call that never
\* settles is a behaviour in which this step is not taken.
SaveScoreSettles(i, outcome) ==
    /\ pc = "idle"
    /\ i \in 1 .. Len(inflight)
    /\ inflight' = SubSeq(inflight, 1, i - 1) \o
                      SubSeq(inflight, i + 1, Len(inflight))
    /\ isGameOver' = AfterSaveScore(outcome, isGameOver)
    /\ UNCHANGED <<snake, food, direction, isPaused, score, speed,
                   currentUser, call, hist, side, clock, auth>>

LoopNext ==
    \/ Login
    \/ Logout
    \/ TryAgain
    \/ \E key \in LoopKeys : HandleArrowKey(key)
    \/ HandleSpaceKey
    \/ \E dt \in FrameGaps : Loop(dt)
    \/ GenerateFoodRetry(RandomCells)
    \/ GenerateFoodReturn(RandomCells)
    \/ \E i \in 1 .. Len(inflight), outcome \in SaveScoreOutcomes :
            SaveScoreSettles(i, outcome)

LoopSpec == Init /\ [][LoopNext]_vars

\* React unmounts App: the cleanup of the Game Loop effect runs and no
\* handler of App runs any more.
Unmount ==
    /\ pc = "idle"
    /\ pc' = "unmounted"
    /\ rafPending' = CancelAnimationFrame(rafPending)
    /\ UNCHANGED <<game, currentUser, currentSnake, newFood, hist, side,
                   beside>>

EffectNext == LoopNext \/ Unmount

EffectSpec == Init /\ [][EffectNext]_vars

----------------------------------------------------------------------------
(* Late game: the board is almost full.                                    *)
(*                                                                         *)
(* A game in which the snake has followed the rows of the grid in turn     *)
(* (row 0 from x = 0 up, row 1 back, and so on) and has found each food in *)
(* front of its head holds, after n - 3 pickups, the first n cells of that *)
(* path.  LateInit starts from such games, a few cells short of a full     *)
(* board, where 400 ticks of the main specification cannot be explored.    *)
(* The ticks before that state are not counted in ticks and turns.         *)

\* The k-th cell of the row-by-row path, k in 1 .. GRID_SIZE * GRID_SIZE.
PathCell(k) ==
    LET r == (k - 1) \div GRID_SIZE
        c == (k - 1) % GRID_SIZE
    IN  Pt(IF r % 2 = 0 THEN c ELSE GRID_SIZE - 1 - c, r)

\* The snake that holds the first n cells of the path, head first.
PathSnake(n) == [i \in 1 .. n |-> PathCell(n + 1 - i)]

LateLengths == {GRID_SIZE * GRID_SIZE - 3, GRID_SIZE * GRID_SIZE - 2}

LateInit ==
    \E n \in LateLengths :
      \E k \in (n + 1) .. (GRID_SIZE * GRID_SIZE) :
        /\ snake = PathSnake(n)
        /\ food = PathCell(k)
        /\ direction = Pt(PathCell(n).x - PathCell(n - 1).x,
                          PathCell(n).y - PathCell(n - 1).y)
        /\ isGameOver = FALSE
        /\ isPaused = FALSE
        /\ score = SCORE_INCREMENT * (n - 3)
        /\ speed = Max(MIN_SPEED, BASE_SPEED - SPEED_INCREMENT * (n - 3))
        /\ currentUser \in Users
        /\ pc = "idle"
        /\ currentSnake = <<>>
        /\ newFood = NoPoint
        /\ ticks = 0
        /\ turns = 0
        /\ pickups = n - 3
        /\ lastDir = direction
        /\ lastInput = "none"
        /\ collision = "none"
        /\ closure = Capture(currentUser, score)
        /\ submitted = <<>>
        /\ EnvInit

\* The outcomes of Math.random() the late game draws from: the last cells of
\* the path, which the snake has not reached or has just reached, and the
\* first ones, which its tail has left or is about to leave.  The snake is
\* confined to the path (the rows above it are full of its body), so every
\* free cell is one of these; the samples left out are all rejected.
LateCells ==
    {PathCell(k) : k \in (1 .. (MaxTicks + 1)) \cup
                         ((GRID_SIZE * GRID_SIZE - 5) .. (GRID_SIZE * GRID_SIZE))}

LateNext ==
    \/ HandleKeyDown
    \/ HandleSpaceKey
    \/ Tick
    \/ GenerateFoodRetry(LateCells)
    \/ GenerateFoodReturn(LateCells)

\* Math.random() is fair: a loop of generateFood that can leave on some
\* sample does not draw rejected samples for ever.
LateSpec ==
    LateInit /\ [][LateNext]_vars /\ WF_vars(GenerateFoodReturn(LateCells))

----------------------------------------------------------------------------
(* Mid game: the speed is about to reach its floor.                        *)
(*                                                                         *)
(* A game of a logged-in user after MidPickups pickups, one pickup short   *)
(* of the floor: the head is in the middle of the grid and heads up, the   *)
(* body goes down its column and winds through the three columns to the    *)
(* right.  Fifty pickups are beyond the ticks of the main specification.   *)

\* The pickups after which one more takes the speed to MIN_SPEED.
MidPickups == (BASE_SPEED - MIN_SPEED) \div SPEED_INCREMENT - 1

\* The k-th cell of the mid-game snake, head first.
MidCell(k) ==
    LET h == GRID_SIZE \div 2
        j == k - h - 1
    IN  IF k <= h THEN Pt(h, h - 1 + k)
        ELSE IF j < GRID_SIZE THEN Pt(h + 1, GRID_SIZE - 1 - j)
        ELSE IF j < 2 * GRID_SIZE THEN Pt(h + 2, j - GRID_SIZE)
        ELSE Pt(h + 3, 3 * GRID_SIZE - 1 - j)

MidSnake == [k \in 1 .. (3 + MidPickups) |-> MidCell(k)]

MidInit ==
    /\ snake = MidSnake
    /\ food \in {c \in RandomCells : c \notin Cells(MidSnake)}
    /\ direction = INITIAL_DIRECTION
    /\ isGameOver = FALSE
    /\ isPaused = FALSE
    /\ score = SCORE_INCREMENT * MidPickups
    /\ speed = Max(MIN_SPEED, BASE_SPEED - SPEED_INCREMENT * MidPickups)
    /\ currentUser \in Users
    /\ pc = "idle"
    /\ currentSnake = <<>>
    /\ newFood = NoPoint
    /\ ticks = 0
    /\ turns = 0
    /\ pickups = MidPickups
    /\ lastDir = direction
    /\ lastInput = "none"
    /\ collision = "none"
    /\ closure = Capture(currentUser, score)
    /\ submitted = <<>>
    /\ EnvInit

MidNext ==
    \/ TryAgain
    \/ HandleKeyDown
    \/ HandleSpaceKey
    \/ Tick
    \/ GenerateFoodRetry(RandomCells)
    \/ GenerateFoodReturn(RandomCells)

MidSpec == MidInit /\ [][MidNext]_vars

----------------------------------------------------------------------------
(* The account store: loginUser of src/src/lib/storage.ts, called by the   *)
(* submit handler of Auth.  The table snake_users holds at most one row    *)
(* for a username.                                                         *)

Usernames == Users \cup {"trinity"}
Passwords == {"pw1", "pw2"}

\* The states of snake_users: a password for each username that has a row.
Tables == UNION {[D -> Passwords] : D \in SUBSET Usernames}

NoData == "null"
NoError == "null"

\* What awaiting the select ... eq('username', username).single() can give:
\* the row, an error because there is not exactly one row, an error because
\* the store could not be reached or refused, or an exception.
StoreResponses(table, username) ==
    (IF username \in DOMAIN table
     THEN {[thrown |-> FALSE, data |-> table[username], error |-> NoError]}
     ELSE {[thrown |-> FALSE, data |-> NoData, error |-> "no rows"]})
    \cup {[thrown |-> FALSE, data |-> NoData, error |-> "request failed"],
          [thrown |-> TRUE, data |-> NoData, error |-> "request failed"]}

\* The result of loginUser from what the store gave.
LoginUser(response, username, password) ==
    IF response.thrown
    THEN [success |-> FALSE, token |-> NoUser, error |-> response.error]
    ELSE IF response.error # NoError \/ response.data = NoData
    THEN [success |-> FALSE, token |-> NoUser, error |-> "User not found"]
    ELSE IF response.data # password
    THEN [success |-> FALSE, token |-> NoUser, error |-> "Incorrect password"]
    ELSE [success |-> TRUE, token |-> username, error |-> NoError]

\* handleSubmit of Auth in login mode, up to the request loginUser sends.
LoginUserCall(table, username, password) ==
    /\ currentUser = NoUser
    /\ auth.phase = "idle"
    /\ auth' = [phase |-> "called", table |-> table,
                username |-> username, password |-> password]
    /\ UNCHANGED <<game, currentUser, call, hist, side, clock, inflight>>

\* The store answers the request.
StoreAnswers ==
    /\ auth.phase = "called"
    /\ \E response \in StoreResponses(auth.table, auth.username) :
          auth' = [auth EXCEPT !.phase = "answered"] @@
                  [response |-> response]
    /\ UNCHANGED <<game, currentUser, call, hist, side, clock, inflight>>

\* loginUser returns its result.
LoginUserReturns ==
    /\ auth.phase = "answered"
    /\ auth' = [auth EXCEPT !.phase = "returned"] @@
               [result |-> LoginUser(auth.response, auth.username,
                                     auth.password)]
    /\ UNCHANGED <<game, currentUser, call, hist, side, clock, inflight>>

\* handleSubmit goes on: onLogin(result.token) or setError(...).
HandleSubmitResumes ==
    /\ auth.phase = "returned"
    /\ auth' = AuthIdle
    /\ currentUser' = IF auth.result.success /\ auth.result.token # NoUser
                      THEN auth.result.token
                      ELSE currentUser
    /\ UNCHANGED <<game, call, hist, side, clock, inflight>>

StoreNext ==
    \/ \E table \in Tables, username \in Usernames, password \in Passwords :
          LoginUserCall(table, username, password)
    \/ StoreAnswers
    \/ LoginUserReturns
    \/ HandleSubmitResumes

StoreSpec == Init /\ [][StoreNext]_vars

----------------------------------------------------------------------------
(* The storage boundary: the five functions of src/src/lib/storage.ts.     *)
(* Each awaits one request of the store client inside try/catch; what the  *)
(* client throws is an Error with a message.                               *)

StorageFunctions ==
    {"registerUser", "saveScore", "getUserScores", "getGlobalHighScores"}

\* A promise that resolved with a value, a promise that rejected.
Resolved(value) == [settled |-> "resolved", value |-> value]
Rejected(why) == [settled |-> "rejected", value |-> why]

\* Rows of snake_scores, as the store orders them.
ScoreData ==
    LET r1 == [username |-> "neo", score |-> 2 * SCORE_INCREMENT, created_at |-> 2]
        r2 == [username |-> "neo", score |-> SCORE_INCREMENT, created_at |-> 1]
    IN  {<<>>, <<r1>>, <<r1, r2>>}

\* What the store gives: rows is the data, an empty list with isNull when
\* data is null.
Response(thrown, isNull, rows, error) ==
    [thrown |-> thrown, isNull |-> isNull, rows |-> rows, error |-> error]

\* The request failed: an error result, an exception.
StorageFailures ==
    {Response(FALSE, TRUE, <<>>, "request failed"),
     Response(TRUE, TRUE, <<>>, "request failed")}

\* What awaiting the request of each function can give.
StorageResponses(fn) ==
    StorageFailures \cup
    (CASE fn = "registerUser" ->
            {Response(FALSE, TRUE, <<>>, NoError),
             Response(FALSE, TRUE, <<>>, "23505")}
       [] fn = "saveScore" ->
            {Response(FALSE, TRUE, <<>>, NoError)}
       [] OTHER ->
            {Response(FALSE, FALSE, d, NoError) : d \in ScoreData}
            \cup {Response(FALSE, TRUE, <<>>, NoError)})

\* registerUser
RegisterUser(response) ==
    IF response.thrown
    THEN Resolved([success |-> FALSE, error |-> response.error])
    ELSE IF response.error # NoError
    THEN IF response.error = "23505"
         THEN Resolved([success |-> FALSE, error |-> "User already exists"])
         ELSE Resolved([success |-> FALSE, error |-> response.error])
    ELSE Resolved([success |-> TRUE, error |-> NoError])

\* saveScore: both failures are logged, nothing is returned.
SaveScore(response) == Resolved("undefined")

\* Mutant of GetUserScores: no catch around the request.
GetUserScoresNoCatch(response) ==
    IF response.thrown THEN Rejected(response.error)
    ELSE IF response.error # NoError THEN Resolved(<<>>)
    ELSE IF response.isNull THEN Resolved(<<>>)
    ELSE Resolved([i \in 1 .. Len(response.rows) |->
                     [score |-> response.rows[i].score,
                      date |-> response.rows[i].created_at]])

\* getUserScores
GetUserScores(response) ==
    IF response.thrown THEN Resolved(<<>>)
    ELSE IF response.error # NoError THEN Resolved(<<>>)
    ELSE IF response.isNull THEN Resolved(<<>>)
    ELSE Resolved([i \in 1 .. Len(response.rows) |->
                     [score |-> response.rows[i].score,
                      date |-> response.rows[i].created_at]])

\* getGlobalHighScores
GetGlobalHighScores(response) ==
    IF response.thrown THEN Resolved(<<>>)
    ELSE IF response.error # NoError THEN Resolved(<<>>)
    ELSE IF response.isNull THEN Resolved(<<>>)
    ELSE Resolved(response.rows)

\* The promise a function of the boundary returns, from what the store gave.
StorageOutcome(fn, response) ==
    CASE fn = "registerUser" -> RegisterUser(response)
      [] fn = "saveScore" -> SaveScore(response)
      [] fn = "getUserScores" -> GetUserScores(response)
      [] fn = "getGlobalHighScores" -> GetGlobalHighScores(response)

\* A caller awaits a function of the boundary: handleSubmit of Auth in
\* registration mode, moveSnake (saveScore, not awaited), the effect of
\* ScoreHistory, refreshScores of App.
StorageCall(fn, username) ==
    /\ pc = "idle"
    /\ auth.phase = "idle"
    /\ fn = "registerUser" => currentUser = NoUser
    /\ fn \in {"saveScore", "getUserScores"} => currentUser = username
    /\ auth' = [phase |-> "pending", fn |-> fn, username |-> username]
    /\ UNCHANGED <<game, currentUser, call, hist, side, clock, inflight>>

\* The request settles and the function returns.
StorageSettles ==
    /\ auth.phase = "pending"
    /\ \E response \in StorageResponses(auth.fn) :
          auth' = [phase |-> "settled", fn |-> auth.fn,
                   username |-> auth.username, response |-> response,
                   outcome |-> StorageOutcome(auth.fn, response)]
    /\ UNCHANGED <<game, currentUser, call, hist, side, clock, inflight>>

\* The caller goes on with the value: onLogin({ username }) after a
\* successful registration, setError, setHighScore, setPersonalScores.
CallerResumes ==
    /\ auth.phase = "settled"
    /\ auth.outcome.settled = "resolved"
    /\ auth' = AuthIdle
    /\ currentUser' = IF auth.fn = "registerUser" /\ auth.outcome.value.success
                      THEN auth.username
                      ELSE currentUser
    /\ UNCHANGED <<game, call, hist, side, clock, inflight>>

BoundaryNext ==
    \/ StoreNext
    \/ \E fn \in StorageFunctions, username \in Usernames :
          StorageCall(fn, username)
    \/ StorageSettles
    \/ CallerResumes

BoundarySpec == Init /\ [][BoundaryNext]_vars

----------------------------------------------------------------------------
(* Vocabulary of the properties *)

Opposite(d) == Pt(0 - d.x, 0 - d.y)

\* Two unit directions lie on the same axis.
SameAxis(a, b) == (a.x = 0) = (b.x = 0)

\* The cell in front of the head.
Ahead == Pt(snake[1].x + direction.x, snake[1].y + direction.y)

\* A coordinate equal to -1 or to GRID_SIZE.
OffGrid(p) == p.x \in {-1, GRID_SIZE} \/ p.y \in {-1, GRID_SIZE}

InGrid(p) == p.x \in 0 .. (GRID_SIZE - 1) /\ p.y \in 0 .. (GRID_SIZE - 1)

\* The step is a tick that ran to its end without calling generateFood.
TickStep == pc = "idle" /\ pc' = "idle" /\ ticks' = ticks + 1

\* The step is the end of a tick that called generateFood.
EatStep == pc = "moveSnake" /\ pc' = "idle"

\* The step is an executed tick.
ExecutedTick == TickStep \/ EatStep

----------------------------------------------------------------------------
(* C1 *)

\* C1: between two consecutive executed ticks of one game, whatever
\* directional inputs arrive, the later tick does not move in the exact
\* opposite of the direction the earlier tick moved in.
C1_NoReversalBetweenTicks ==
    [][(ExecutedTick /\ lastDir # NoPoint) => lastDir' # Opposite(lastDir)]_vars

----------------------------------------------------------------------------
(* C2 *)

\* C2: one directional input, from the keyboard or an on-screen button, on
\* the axis of the current direction leaves the direction unchanged and one
\* on the perpendicular axis becomes the direction; the tick that follows
\* moves in the direction held then.
C2_SameAxisInputIgnored ==
    /\ [][\A key \in ArrowKeys :
            (HandleArrowKey(key) \/ (ControlButton /\ lastInput' = key)) =>
               direction' = IF SameAxis(KeyDirection(key), direction)
                            THEN direction
                            ELSE KeyDirection(key)]_vars
    /\ [][ExecutedTick =>
            /\ direction' = direction
            /\ snake' # snake => snake'[1] = Ahead]_vars

\* An input (0,1) was handled while the direction was (0,-1), and the
\* direction is still (0,-1).
C2_Witness ==
    /\ lastInput = "ArrowDown"
    /\ direction = Pt(0, -1)
    /\ lastDir = Pt(0, -1)
    /\ ~isGameOver /\ ~isPaused

----------------------------------------------------------------------------
(* C3 *)

\* C3: in every reachable state the snake holds no two equal Points.
C3_NoDuplicateCells ==
    \A i, j \in 1 .. Len(snake) : i # j => snake[i] # snake[j]

\* A grown snake that has turned twice and then ended its game on itself,
\* in a game created by a reset.
C3_Witness ==
    /\ Len(snake) >= 5
    /\ turns >= 2
    /\ collision = "self"

----------------------------------------------------------------------------
(* C4 *)

\* C4: a tick whose new head is a cell of the snake as it is before the move,
\* the tail cell included, sets gameOver and leaves snake, score, speed and
\* food as they were.
C4_SelfCollisionOnPreMoveBody ==
    [][(ExecutedTick /\ InGrid(Ahead) /\ Ahead \in Cells(snake)) =>
          /\ isGameOver'
          /\ snake' = snake /\ score' = score
          /\ speed' = speed /\ food' = food]_vars

\* The game ended on the tail cell, which the move would have vacated.
C4_Witness ==
    /\ isGameOver
    /\ collision = "self"
    /\ Len(snake) >= 4
    /\ Pt(snake[1].x + lastDir.x, snake[1].y + lastDir.y) = snake[Len(snake)]

----------------------------------------------------------------------------
(* C5 *)

\* C5: a tick ends the game by wall collision exactly when head + direction
\* has a coordinate equal to -1 or GRID_SIZE, and then snake, score, speed
\* and food stay; from the initial snake heading (0,-1), with no turn and no
\* pickup, the head is at (10, 10 - k) after k <= 10 ticks and the eleventh
\* tick sets gameOver with the head at (10,0).
C5_WallCollision ==
    /\ [][ExecutedTick =>
            /\ (collision' = "wall") = OffGrid(Ahead)
            /\ OffGrid(Ahead) =>
                  /\ isGameOver'
                  /\ snake' = snake /\ score' = score
                  /\ speed' = speed /\ food' = food]_vars
    /\ []((turns = 0 /\ pickups = 0 /\ pc = "idle") =>
            /\ ticks <= 10 => (snake[1] = Pt(10, 10 - ticks) /\ ~isGameOver)
            /\ ticks = 11 => (snake[1] = Pt(10, 0) /\ isGameOver))

\* Eleven ticks straight up from the initial snake: the game is over at the
\* top wall.
C5_Witness ==
    /\ ticks = 11 /\ turns = 0 /\ pickups = 0
    /\ isGameOver /\ collision = "wall"
    /\ snake = <<Pt(10, 0), Pt(10, 1), Pt(10, 2)>>

----------------------------------------------------------------------------
(* C6 *)

\* C6: a tick that does not collide and whose new head is the food cell
\* prepends the new head, keeps the tail, adds 10 to score, sets speed to
\* max(50, speed - 2) and replaces food; one whose new head is another cell
\* prepends the new head, drops the last cell and keeps score, speed and
\* food.  From the initial snake with food (10,9) one tick gives the snake
\* [(10,9),(10,10),(10,11),(10,12)], score 10 and speed 148.
C6_FoodAndMove ==
    /\ [][EatStep =>
            /\ Ahead = food
            /\ snake' = <<Ahead>> \o snake
            /\ score' = score + 10
            /\ speed' = (IF speed - 2 >= 50 THEN speed - 2 ELSE 50)
            /\ food' # food]_vars
    /\ [][(TickStep /\ InGrid(Ahead) /\ Ahead \notin Cells(snake)) =>
            /\ Ahead # food
            /\ snake' = <<Ahead>> \o SubSeq(snake, 1, Len(snake) - 1)
            /\ score' = score /\ speed' = speed /\ food' = food]_vars
    /\ []((ticks = 1 /\ pickups = 1 /\ turns = 0) =>
            /\ snake = <<Pt(10, 9), Pt(10, 10), Pt(10, 11), Pt(10, 12)>>
            /\ score = 10
            /\ speed = 148)

\* The first tick of a game ate the food at (10,9).
C6_Witness ==
    /\ ticks = 1 /\ pickups = 1 /\ turns = 0
    /\ snake[1] = Pt(10, 9)
    /\ pc = "idle"

----------------------------------------------------------------------------
(* C7 *)

\* C7: in every reachable state the snake has 3 + F cells, F the number of
\* food pickups since the game was created.
C7_LengthIsThreePlusPickups == Len(snake) = 3 + pickups

\* A game with two pickups that ended in a collision.
C7_Witness ==
    /\ pickups >= 2
    /\ isGameOver
    /\ ticks > pickups

----------------------------------------------------------------------------
(* C8 *)

\* C8: in every reachable state the food cell lies inside the grid and is no
\* cell of the snake.
C8_FoodOffSnake == InGrid(food) /\ food \notin Cells(snake)

\* The food was placed again after a pickup, next to a snake of four cells.
C8_Witness ==
    /\ pickups = 1 /\ pc = "idle"
    /\ food \in {Pt(10, 8), Pt(9, 9)}


----------------------------------------------------------------------------
(* C9 *)

\* C9: a call of generateFood with a snake that leaves a grid cell free
\* (down to a single free cell) ends under fair sampling, and the cell it
\* returns lies in the grid and off that snake.
C9_GenerateFoodTerminates ==
    /\ (pc # "idle" /\ Cells(currentSnake) # Grid) ~> (pc = "idle")
    /\ [][(pc # "idle" /\ pc' = "idle") =>
            (InGrid(food') /\ food' \notin Cells(currentSnake))]_vars

\* generateFood was called with a snake of all cells but one and returned.
C9_Witness ==
    /\ pc = "idle"
    /\ Len(snake) = GRID_SIZE * GRID_SIZE - 1
    /\ food \notin Cells(snake)

----------------------------------------------------------------------------
(* C10 *)

\* C10: every tick completes: a tick that has called generateFood can leave
\* its loop, whatever the snake, the full board included.
C10_TickIsTotal == pc = "moveSnake" => \E c \in Grid : c \notin Cells(currentSnake)

----------------------------------------------------------------------------
(* The frame clock: vocabulary *)

\* The step is one frame callback.
LoopStep == frames' = frames + 1

\* The step is the settling of a score submission.
SettleStep == Len(inflight') < Len(inflight)

\* The step is the end of resetGame: a new game is created.
ResetStep == pc = "resetGame" /\ pc' = "idle"

\* The step is a frame callback whose tick has called generateFood.
EatCall == pc = "idle" /\ pc' = "moveSnake"

----------------------------------------------------------------------------
(* C11 *)

\* C11 as stated: a frame callback at time now invokes the tick once and
\* sets lastTickTime = now if now - lastTickTime >= speed, equality included,
\* and otherwise invokes nothing and leaves lastTickTime alone; it registers
\* itself again in both cases.
C11_TickAtOnePeriod ==
    [][LoopStep =>
        /\ IF frameTime' - lastUpdateTime >= speed
           THEN invoked' = 1 /\ lastUpdateTime' = frameTime'
           ELSE invoked' = 0 /\ lastUpdateTime' = lastUpdateTime
        /\ rafPending' = 1]_vars

\* C11 amended: a frame callback at time now invokes the tick once (and a
\* running game then executes it) and sets lastTickTime = now if
\* now - lastTickTime > speed, strictly; at now - lastTickTime = speed and
\* below it invokes nothing, leaves lastTickTime alone and changes no game
\* state; it registers itself again in both cases.
C11_TickAfterMoreThanOnePeriod ==
    [][LoopStep =>
        /\ IF frameTime' - lastUpdateTime > speed
           THEN /\ invoked' = 1
                /\ lastUpdateTime' = frameTime'
                /\ ~(isPaused \/ isGameOver) => (TickStep \/ EatCall)
           ELSE /\ invoked' = 0
                /\ lastUpdateTime' = lastUpdateTime
                /\ UNCHANGED <<game, call, hist, side>>
        /\ rafPending' = 1]_vars

\* A callback came exactly one period after the reference time of a running
\* game and invoked nothing.
C11_Witness ==
    /\ frames >= 1
    /\ ~isPaused /\ ~isGameOver
    /\ frameTime - lastUpdateTime = speed
    /\ invoked = 0

----------------------------------------------------------------------------
(* C12 *)

\* C12: a frame callback executes at most one tick, however many periods
\* have gone by: the head moves by at most one cell, and the reference time
\* becomes the time of the callback, so that no missed period is owed; a
\* tick is executed by a frame callback only.
C12_AtMostOneTickPerFrame ==
    /\ [][LoopStep =>
            /\ invoked' <= 1
            /\ ticks' \in {ticks, ticks + 1}
            /\ snake'[1] \in {snake[1], NewHead(snake[1], direction)}
            /\ EatCall => currentSnake'[1] = NewHead(snake[1], direction)
            /\ invoked' = 1 => lastUpdateTime' = frameTime']_vars
    /\ [][(TickStep \/ EatCall) => LoopStep]_vars
    /\ [][EatStep => snake' = currentSnake]_vars

\* The first callback came two and a half periods late and executed one
\* tick; the second came half a period later and executed none.
C12_Witness ==
    /\ frames = 2
    /\ ticks = 1
    /\ invoked = 0
    /\ lastUpdateTime >= 2 * BASE_SPEED
    /\ frameTime - lastUpdateTime < speed
    /\ ~isPaused /\ ~isGameOver

----------------------------------------------------------------------------
(* C13 *)

\* C13: once isGameOver is true, snake, food, direction, score, speed and
\* isPaused do not change while it stays true, whatever tick, directional
\* input or pause toggle arrives.
C13_FrozenWhenOver ==
    [][(isGameOver /\ isGameOver') =>
          UNCHANGED <<snake, food, direction, score, speed, isPaused>>]_vars

----------------------------------------------------------------------------
(* C14 *)

\* C14: a frame callback that finds isPaused true changes none of snake,
\* food, direction, score, speed and isGameOver, and issues no score
\* submission.
C14_PausedTickChangesNothing ==
    [][(LoopStep /\ isPaused) =>
          UNCHANGED <<snake, food, direction, score, speed, isGameOver,
                      pc, ticks, submitted, inflight>>]_vars

\* A callback that was due found the first game paused: it called moveSnake
\* and no tick has been executed.
C14_Witness ==
    /\ food = INITIAL_FOOD
    /\ isPaused
    /\ invoked = 1
    /\ lastUpdateTime = frameTime
    /\ ticks = 0
    /\ snake = INITIAL_SNAKE

----------------------------------------------------------------------------
(* C15 *)

\* C15, for the games of a logged-in user: the step that sets isGameOver
\* issues exactly one score submission, for that user and with the score
\* held at that moment.
C15_GameOverSubmitsScore ==
    [][(~isGameOver /\ isGameOver' /\ currentUser # NoUser) =>
          submitted' = Append(submitted, [username |-> currentUser,
                                          score |-> score])]_vars

----------------------------------------------------------------------------
(* C16 *)

\* C16: the settling of a score submission, whatever its outcome, changes
\* nothing of the game (isGameOver and score included); while submissions
\* are outstanding the pause toggle, the frame callback and, in game over,
\* Try Again are enabled as they are without them.
C16_SubmissionIndependent ==
    /\ [][SettleStep => UNCHANGED <<game, currentUser, call, hist, side,
                                    clock>>]_vars
    /\ []((Len(inflight) > 0 /\ pc = "idle") =>
            /\ ENABLED HandleSpaceKey
            /\ (turns < MaxTurns) => ENABLED HandleKeyDown
            /\ (frames < MaxFrames /\ ticks < MaxTicks) =>
                  \A dt \in FrameGaps : ENABLED Loop(dt)
            /\ (isGameOver /\ currentUser # NoUser) => ENABLED TryAgain)

\* A game made by Try Again has executed a tick while the submission of
\* the game before it is outstanding.
C16_Witness ==
    /\ Len(inflight) > 0
    /\ submitted = <<>>
    /\ ticks >= 1
    /\ ~isGameOver
    /\ currentUser # NoUser

----------------------------------------------------------------------------
(* C17 *)

\* C17: while no user is logged in no tick is executed.
C17_NoTickWithoutUser == [][ExecutedTick => currentUser # NoUser]_vars

----------------------------------------------------------------------------
(* C18 *)

\* C18 as stated: every game made by resetGame is paused.
C18_EveryNewGameReady == [][ResetStep => isPaused']_vars

\* C18 amended: the first game is Ready (paused, the snake at its initial
\* position), and while isPaused is true the snake changes only by
\* resetGame; a game made by resetGame is Running at once: not paused, not
\* over, the snake at its initial position.  isGameOver is set only by a
\* tick of a game that is not paused, and cleared only by resetGame.
C18_FirstGameReadyResetRuns ==
    /\ ~(isPaused /\ ~isGameOver /\ snake = INITIAL_SNAKE) => []FALSE
    /\ [][(isPaused /\ snake' # snake) => ResetStep]_vars
    /\ [][ResetStep => (/\ ~isPaused'
                        /\ ~isGameOver'
                        /\ snake' = INITIAL_SNAKE
                        /\ direction' = INITIAL_DIRECTION
                        /\ score' = 0)]_vars
    /\ [][(~isGameOver /\ isGameOver') => (~isPaused /\ TickStep)]_vars
    /\ [][(isGameOver /\ ~isGameOver') => ResetStep]_vars

\* A game made by resetGame, with no input since, has executed a tick.
C18_Witness ==
    /\ food # INITIAL_FOOD
    /\ pickups = 0
    /\ ticks = 1
    /\ turns = 0
    /\ snake[1] = NewHead(INITIAL_SNAKE[1], INITIAL_DIRECTION)
    /\ ~isPaused

----------------------------------------------------------------------------
(* C19 *)

\* C19: in every state MIN_SPEED <= speed <= BASE_SPEED and speed is
\* max(MIN_SPEED, BASE_SPEED - SPEED_INCREMENT * F), F the pickups since the
\* game was created; speed goes up only when resetGame sets it to
\* BASE_SPEED.
C19_SpeedFloorAndFormula ==
    /\ [](/\ MIN_SPEED <= speed /\ speed <= BASE_SPEED
          /\ speed = Max(MIN_SPEED, BASE_SPEED - SPEED_INCREMENT * pickups))
    /\ [][speed' > speed => (ResetStep /\ speed' = BASE_SPEED)]_vars

\* Two pickups since the speed was one step above the floor: the formula
\* without the floor is below MIN_SPEED and the speed is MIN_SPEED.
C19_Witness ==
    /\ pickups = MidPickups + 2
    /\ BASE_SPEED - SPEED_INCREMENT * pickups < MIN_SPEED
    /\ speed = MIN_SPEED
    /\ pc = "idle"

----------------------------------------------------------------------------
(* C20 *)

\* The row of the username of the call, if snake_users has one.
HasRow == auth.username \in DOMAIN auth.table

\* C20: when the store answers the query, loginUser succeeds exactly when
\* snake_users holds a row for the username with the password supplied, and
\* the token carries that username; the result is 'Incorrect password' when
\* the row holds another password; the result is 'User not found' only when
\* there is no row for the username; when the request throws, the result
\* is neither of these nor a success.
C20_LoginUserOutcomes ==
    auth.phase = "returned" =>
      LET r == auth.result
          answered == ~auth.response.thrown /\
                      auth.response.error \in {NoError, "no rows"}
      IN  /\ answered =>
                (r.success <=>
                   (HasRow /\ auth.table[auth.username] = auth.password))
          /\ r.success => r.token = auth.username
          /\ (answered /\ HasRow /\ auth.table[auth.username] # auth.password)
                => r.error = "Incorrect password"
          /\ r.error = "User not found" => ~HasRow
          /\ auth.response.thrown =>
                (~r.success /\
                 r.error \notin {"User not found", "Incorrect password"})

----------------------------------------------------------------------------
(* C22 *)

\* C22: the pause toggle, in whatever state it is invoked, inverts isPaused
\* and leaves snake, food, direction, score, speed and isGameOver (and the
\* user, the call in progress and the counters of the game) as they are, so
\* that two toggles in a row give back the state they started from.
C22_PauseToggleOnlyPaused ==
    [][HandleSpaceKey =>
          /\ isPaused' = ~isPaused
          /\ UNCHANGED <<snake, food, direction, score, speed, isGameOver,
                         currentUser, call, hist, submitted>>]_vars

\* A game that has run and picked food up is paused.
C22_Witness ==
    /\ isPaused /\ ~isGameOver
    /\ pickups = 1
    /\ ticks >= 2
    /\ pc = "idle"

----------------------------------------------------------------------------
(* C23 *)

\* C23: the end of resetGame, whatever the state it was called in, gives
\* snake = INITIAL_SNAKE, direction = INITIAL_DIRECTION, score = 0,
\* speed = BASE_SPEED, isGameOver = FALSE and a food cell of the grid that
\* is not on INITIAL_SNAKE.
C23_ResetGivesInitialGame ==
    [][ResetStep =>
          /\ snake' = INITIAL_SNAKE
          /\ direction' = INITIAL_DIRECTION
          /\ score' = 0
          /\ speed' = BASE_SPEED
          /\ ~isGameOver'
          /\ InGrid(food') /\ food' \notin Cells(INITIAL_SNAKE)]_vars

\* resetGame at logout has made a new game.
C23_Witness ==
    /\ currentUser = NoUser
    /\ food # INITIAL_FOOD
    /\ snake = INITIAL_SNAKE /\ direction = INITIAL_DIRECTION
    /\ score = 0 /\ speed = BASE_SPEED /\ ~isGameOver
    /\ ticks = 0 /\ pickups = 0
    /\ pc = "idle"

----------------------------------------------------------------------------
(* C24 *)

\* C24: in every state score = SCORE_INCREMENT * (Len(snake) - 3), a
\* multiple of SCORE_INCREMENT that is not negative; score changes only at
\* the end of a tick that picked food up, by SCORE_INCREMENT, and at the end
\* of resetGame, to 0.
C24_ScoreFollowsLength ==
    /\ [](/\ score = SCORE_INCREMENT * (Len(snake) - 3)
          /\ score >= 0
          /\ score % SCORE_INCREMENT = 0)
    /\ [][score' # score =>
            \/ EatStep /\ score' = score + SCORE_INCREMENT
            \/ ResetStep /\ score' = 0]_vars

\* Two pickups: five cells and twice SCORE_INCREMENT.
C24_Witness ==
    /\ Len(snake) = 5
    /\ score = 2 * SCORE_INCREMENT
    /\ pc = "idle"

----------------------------------------------------------------------------
(* C25 *)

\* Two cells that differ by exactly 1 in exactly one coordinate.
Adjacent(a, b) ==
    \/ a.x = b.x /\ (a.y - b.y) \in {-1, 1}
    \/ a.y = b.y /\ (a.x - b.x) \in {-1, 1}

\* C25: in every state every cell of snake lies in the grid and every two
\* consecutive cells of snake are orthogonally adjacent.
C25_SnakeIsConnectedPathInGrid ==
    /\ \A i \in 1 .. Len(snake) : InGrid(snake[i])
    /\ \A i \in 1 .. (Len(snake) - 1) : Adjacent(snake[i], snake[i + 1])

\* A snake of four cells has turned along the top row.
C25_Witness ==
    /\ Len(snake) = 4
    /\ snake[1].y = 0
    /\ snake[1].x # snake[2].x
    /\ snake[2].x = snake[3].x

----------------------------------------------------------------------------
(* C26 *)

\* C26: in every state at most one callback of the game loop is registered
\* (exactly one while App is mounted, whatever re-registrations the changes
\* of direction, food, isPaused, isGameOver and speed have caused), and
\* none once the effect has been cleaned up for good.
C26_OneCallbackRegistered ==
    /\ rafPending <= 1
    /\ pc # "unmounted" => rafPending = 1
    /\ pc = "unmounted" => rafPending = 0

\* The loop has been re-registered by a turn, a pickup and a game over,
\* has run callbacks, and App is unmounted.
C26_Witness ==
    /\ pc = "unmounted"
    /\ rafPending = 0
    /\ frames >= 3
    /\ turns >= 1
    /\ pickups >= 1
    /\ isGameOver

----------------------------------------------------------------------------
(* C21 *)

\* The store gave an error result or the client threw.
Failed(response) == response.thrown \/ response.error # NoError

\* C21: every call of registerUser, loginUser, saveScore, getUserScores and
\* getGlobalHighScores resolves to a value, whether the store gives data, an
\* error result or the client throws; getUserScores and getGlobalHighScores
\* resolve to the empty list on a failure; no step of a call changes the
\* game state.
C21_BoundaryNeverRejects ==
    /\ [](auth.phase = "settled" =>
            /\ auth.outcome.settled = "resolved"
            /\ (auth.fn \in {"getUserScores", "getGlobalHighScores"}
                  /\ Failed(auth.response)) => auth.outcome.value = <<>>)
    /\ [](auth.phase = "returned" =>
            /\ auth.result.success \in BOOLEAN
            /\ Failed(auth.response) => ~auth.result.success)
    /\ [][auth' # auth =>
            UNCHANGED <<game, call, hist, side, clock, inflight>>]_vars

\* getUserScores was called for the user logged in, the client threw and
\* the call resolved to the empty list.
C21_Witness ==
    /\ auth.phase = "settled"
    /\ auth.fn = "getUserScores"
    /\ currentUser # NoUser
    /\ auth.response.thrown
    /\ auth.outcome = Resolved(<<>>)

====
